---- MODULE Spec2Model ----
(***************************************************************************)
(* Model of the Air task-dispatch core:                                    *)
(*   Source/Fn/Job.rs                         Action, ActionResult, Worker,*)
(*                                            Work (Begin/Assign/Execute), *)
(*                                            the dispatch loop Fn         *)
(*   Source/Struct/Sequence/Plan/Formality.rs the registry Struct          *)
(*                                            (New/Sign/Add/Remove)        *)
(*                                                                         *)
(* Work.Queue is an Arc<Mutex<Vec<Action>>>.  Assign and Execute each      *)
(* await the tokio mutex and then push / pop under the guard; the guard is *)
(* a temporary dropped at the end of the statement.  Each call is two      *)
(* steps here: acquiring the lock, and the Vec operation with the release. *)
(*                                                                         *)
(* Queue elements carry a ghost identity (the ordinal of the push that     *)
(* stored them) beside the Action value, so that two equal Actions are     *)
(* told apart when delivery is counted.  The code never reads it.          *)
(***************************************************************************)
EXTENDS Integers, Sequences, FiniteSets, Bags, TLC

\* ---------------------------------------------------------------- bounds
\* Total number of Work.Assign calls made over a run.
MaxAssign == 2

\* Most elements the queue holds at a time in the steady-state
\* specification, where Assign calls go on for ever.
MaxQueue == 2

\* How long the clock runs in the timed specification, in ms.
MaxTime == 260
\* Most that the runtime is late in resuming a task whose sleep is over, in
\* ms (an assumption on the scheduler; tokio promises no figure).
MaxLate == 60

\* ------------------------------------------------------------ processes
\* Tasks that call Work.Assign / Work.Execute directly.
Callers == {"c1", "c2"}
\* Tasks running the dispatch loop Fn on the shared Work.
Loops == {"w1", "w2"}
Procs == Callers \cup Loops

\* ---------------------------------------------------------- Action model
\* enum Action { Read { Path }, Write { Path, Content } }
Read(p) == [tag |-> "Read", Path |-> p]
Write(p, c) == [tag |-> "Write", Path |-> p, Content |-> c]
Actions == {Read("/tmp/x"), Write("/tmp/x", "data")}

\* struct ActionResult { Action, Result: Result<String, String> }
ActionResult(a, r) == [Action |-> a, Result |-> r]
\* The outcomes an implementation of Worker::Receive may report.
WorkerOutcomes == {[tag |-> "Ok", val |-> "done"], [tag |-> "Err", val |-> "failed"]}

\* Option::None, and the mutex with no guard alive.
None == [tag |-> "None"]
Some(x) == [tag |-> "Some", val |-> x]
Free == "Free"
\* A local that holds no value (not yet assigned, or moved out).
Unset == [tag |-> "Unset"]

VARIABLES
    Queue,      \* Work.Queue: the Vec<Action> behind the mutex
    lock,       \* the task holding the MutexGuard, or Free
    pc,         \* per task: where it is in Assign / Execute / Fn
    arg,        \* per caller: the Action passed to the Assign in progress
    ret,        \* per task: what its last Work.Execute returned
    result,     \* per loop: the ActionResult returned by Site.Receive
    Approval,   \* per loop: the ActionResults accepted by Approval.send
    rxAlive,    \* per loop: the channel's receiver has not been dropped
    Assigned,   \* ghost: the Actions pushed, in push order
    Returned,   \* ghost: bag of the elements handed out by Execute
    Taken,      \* ghost, per loop: the elements its Executes returned, in order
    Received,   \* ghost: bag of the elements passed to Site.Receive
    Dropped,    \* ghost, per loop: the elements whose result could not be sent
    now,        \* the clock, in ms since the loops were started
    wakeAt,     \* per loop: when the sleep it is in is due to end
    polls,      \* per loop: Work.Execute calls completed so far
    value,      \* an Action or ActionResult at the serialization boundary
    wire,       \* its serialized form
    back,       \* what deserializing the serialized form gave
    Signature,  \* Struct.Signature: name -> Signature
    Function,   \* Struct.Function: name -> boxed callable
    signed,     \* ghost: names Sign has been called with on this registry
    last,       \* the registry call made last, with its result
    prev        \* the registry call made before it

queueVars == <<Queue, lock, pc, arg, ret, result, Approval, rxAlive, Assigned, Returned,
               Taken, Received, Dropped>>
regVars == <<Signature, Function, signed, last, prev>>
timeVars == <<now, wakeAt, polls>>
serdeVars == <<value, wire, back>>
vars == <<Queue, lock, pc, arg, ret, result, Approval, rxAlive, Assigned, Returned,
          Taken, Received, Dropped, Signature, Function, signed, last, prev,
          now, wakeAt, polls, value, wire, back>>
\* What a step of the queue and the loops leaves alone, and a registry call.
notQueueVars == <<regVars, timeVars, serdeVars>>
notRegVars == <<queueVars, timeVars, serdeVars>>

\* ------------------------------------------------------------ Vec<Action>
\* Mutant of Push: a lost update, the new Vec holds only the new element.
PushLosing(q, x) == <<x>>

\* Vec::push: the element goes to the end.
Push(q, x) == Append(q, x)

\* Mutant of Pop: the first element is taken (a FIFO queue).
PopFront(q) ==
    IF Len(q) = 0
        THEN [ret |-> None, rest |-> q]
        ELSE [ret |-> Some(q[1]), rest |-> SubSeq(q, 2, Len(q))]

\* Mutant of Pop: the last element is read and left in place (last().cloned()).
PopPeek(q) ==
    IF Len(q) = 0
        THEN [ret |-> None, rest |-> q]
        ELSE [ret |-> Some(q[Len(q)]), rest |-> q]

\* Vec::pop: None on an empty Vec, else the last element, which is removed.
Pop(q) ==
    IF Len(q) = 0
        THEN [ret |-> None, rest |-> q]
        ELSE [ret |-> Some(q[Len(q)]), rest |-> SubSeq(q, 1, Len(q) - 1)]

\* ------------------------------------------------------------------ Work
\* Work::Begin: an empty queue behind a fresh mutex.
Begin == <<>>

\* Number of Assign calls started so far (completed or in progress).
AssignCalls == Len(Assigned) + Cardinality({c \in Callers : pc[c] \in {"assign_lock", "assign_push"}})

\* A caller starts Work.Assign(a): it awaits Queue.lock().
CallAssign(c, a) ==
    /\ pc[c] = "idle"
    /\ AssignCalls < MaxAssign
    /\ pc' = [pc EXCEPT ![c] = "assign_lock"]
    /\ arg' = [arg EXCEPT ![c] = a]
    /\ ret' = [ret EXCEPT ![c] = Unset]
    /\ UNCHANGED <<Queue, lock, result, Approval, rxAlive, Assigned, Returned, Taken, Received, Dropped>>

\* Queue.lock().await inside Assign completes: the mutex is free.
AssignLock(c) ==
    /\ pc[c] = "assign_lock"
    /\ lock = Free
    /\ lock' = c
    /\ pc' = [pc EXCEPT ![c] = "assign_push"]
    /\ UNCHANGED <<Queue, arg, ret, result, Approval, rxAlive, Assigned, Returned, Taken, Received, Dropped>>

\* .push(Action) under the guard; the guard is dropped and Assign returns.
AssignPush(c) ==
    /\ pc[c] = "assign_push"
    /\ lock = c
    /\ Queue' = Push(Queue, [id |-> Len(Assigned) + 1, act |-> arg[c]])
    /\ Assigned' = Append(Assigned, arg[c])
    /\ lock' = Free
    /\ pc' = [pc EXCEPT ![c] = "idle"]
    /\ arg' = [arg EXCEPT ![c] = Unset]
    /\ UNCHANGED <<ret, result, Approval, rxAlive, Returned, Taken, Received, Dropped>>

\* A caller starts Work.Execute(): it awaits Queue.lock().
CallExecute(c) ==
    /\ pc[c] = "idle"
    /\ pc' = [pc EXCEPT ![c] = "exec_lock"]
    /\ ret' = [ret EXCEPT ![c] = Unset]
    /\ UNCHANGED <<Queue, lock, arg, result, Approval, rxAlive, Assigned, Returned, Taken, Received, Dropped>>

\* Mutant of ExecuteLock: the guard is taken whether or not the mutex is
\* free (no mutual exclusion).
ExecuteLockUnguarded(p) ==
    /\ pc[p] = "exec_lock"
    /\ lock' = p
    /\ pc' = [pc EXCEPT ![p] = "exec_pop"]
    /\ UNCHANGED <<Queue, arg, ret, result, Approval, rxAlive, Assigned, Returned, Taken, Received, Dropped>>

\* Queue.lock().await inside Execute completes (a caller's or a loop's).
ExecuteLock(p) ==
    /\ pc[p] = "exec_lock"
    /\ lock = Free
    /\ lock' = p
    /\ pc' = [pc EXCEPT ![p] = "exec_pop"]
    /\ UNCHANGED <<Queue, arg, ret, result, Approval, rxAlive, Assigned, Returned, Taken, Received, Dropped>>

\* Mutant of AfterExecute: the loop ends when the queue is empty (while let).
AfterExecuteWhileLet(p, r) ==
    IF p \in Callers THEN "idle"
    ELSE IF r # None THEN "receive"
    ELSE "stopped"

\* Where Execute's caller goes with the Option it got: a direct caller is
\* done; Fn takes the `if let Some(Action)` branch or the else branch.
AfterExecute(p, r) ==
    IF p \in Callers THEN "idle"
    ELSE IF r # None THEN "receive"
    ELSE "sleep"

\* Mutant of ExecutePop: the call waits under the guard until the Vec holds
\* an element (a blocking receive).
ExecutePopBlocking(p) ==
    /\ pc[p] = "exec_pop"
    /\ lock = p
    /\ Len(Queue) > 0
    /\ LET r == Pop(Queue)
       IN /\ Queue' = r.rest
          /\ ret' = [ret EXCEPT ![p] = r.ret]
          /\ Returned' = Returned (+) SetToBag({r.ret.val})
          /\ Taken' = IF p \in Loops THEN [Taken EXCEPT ![p] = Append(@, r.ret.val)] ELSE Taken
          /\ pc' = [pc EXCEPT ![p] = AfterExecute(p, r.ret)]
    /\ lock' = Free
    /\ UNCHANGED <<arg, result, Approval, rxAlive, Assigned, Received, Dropped>>

\* Mutant of ExecutePop: the loop pops in the scrutinee of its `if let`, so
\* the guard lives on through the branch that handles the action.
ExecutePopHolding(p) ==
    /\ pc[p] = "exec_pop"
    /\ lock = p
    /\ LET r == Pop(Queue)
       IN /\ Queue' = r.rest
          /\ ret' = [ret EXCEPT ![p] = r.ret]
          /\ Returned' = IF r.ret = None THEN Returned ELSE Returned (+) SetToBag({r.ret.val})
          /\ Taken' = IF p \in Loops /\ r.ret # None
                          THEN [Taken EXCEPT ![p] = Append(@, r.ret.val)]
                          ELSE Taken
          /\ pc' = [pc EXCEPT ![p] = AfterExecute(p, r.ret)]
          /\ lock' = IF p \in Loops /\ r.ret # None THEN p ELSE Free
    /\ UNCHANGED <<arg, result, Approval, rxAlive, Assigned, Received, Dropped>>

\* .pop() under the guard; the guard is dropped and Execute returns.
ExecutePop(p) ==
    /\ pc[p] = "exec_pop"
    /\ lock = p
    /\ LET r == Pop(Queue)
       IN /\ Queue' = r.rest
          /\ ret' = [ret EXCEPT ![p] = r.ret]
          /\ Returned' = IF r.ret = None THEN Returned ELSE Returned (+) SetToBag({r.ret.val})
          /\ Taken' = IF p \in Loops /\ r.ret # None
                          THEN [Taken EXCEPT ![p] = Append(@, r.ret.val)]
                          ELSE Taken
          /\ pc' = [pc EXCEPT ![p] = AfterExecute(p, r.ret)]
    /\ lock' = Free
    /\ UNCHANGED <<arg, result, Approval, rxAlive, Assigned, Received, Dropped>>

\* -------------------------------------------------------------------- Fn
\* Site.Receive(Action).await returns: the Action was moved into the call,
\* and the Worker pairs it with its outcome, Ok or Err.
LoopReceive(l, o) ==
    /\ pc[l] = "receive"
    /\ result' = [result EXCEPT ![l] = ActionResult(ret[l].val, o)]
    /\ ret' = [ret EXCEPT ![l] = Unset]
    /\ Received' = Received (+) SetToBag({ret[l].val})
    /\ pc' = [pc EXCEPT ![l] = "send"]
    /\ UNCHANGED <<Queue, lock, arg, Approval, rxAlive, Assigned, Returned, Taken, Dropped>>

\* Mutant of LoopSend: the result of send is ignored (let _ = send(..)).
LoopSendIgnoring(l) ==
    /\ pc[l] = "send"
    /\ Approval' = IF rxAlive[l] THEN [Approval EXCEPT ![l] = Append(@, result[l])] ELSE Approval
    /\ Dropped' = IF rxAlive[l] THEN Dropped ELSE [Dropped EXCEPT ![l] = Append(@, result[l].Action)]
    /\ pc' = [pc EXCEPT ![l] = "exec_lock"]
    /\ result' = [result EXCEPT ![l] = Unset]
    /\ UNCHANGED <<Queue, lock, arg, ret, rxAlive, Assigned, Returned, Taken, Received>>

\* Mutant of LoopSend: an action whose outcome is Err is put back into the
\* queue for another try.
LoopSendRetrying(l) ==
    /\ pc[l] = "send"
    /\ IF rxAlive[l]
          THEN /\ Approval' = [Approval EXCEPT ![l] = Append(@, result[l])]
               /\ Dropped' = Dropped
               /\ pc' = [pc EXCEPT ![l] = "exec_lock"]
          ELSE /\ Approval' = Approval
               /\ Dropped' = [Dropped EXCEPT ![l] = Append(@, result[l].Action)]
               /\ pc' = [pc EXCEPT ![l] = "stopped"]
    /\ Queue' = IF result[l].Result.tag = "Err" THEN Push(Queue, result[l].Action) ELSE Queue
    /\ result' = [result EXCEPT ![l] = Unset]
    /\ UNCHANGED <<lock, arg, ret, rxAlive, Assigned, Returned, Taken, Received>>

\* Mutant of LoopSend: the action of a result that could not be sent goes
\* back into the queue.
LoopSendRequeuing(l) ==
    /\ pc[l] = "send"
    /\ IF rxAlive[l]
          THEN /\ Approval' = [Approval EXCEPT ![l] = Append(@, result[l])]
               /\ Dropped' = Dropped
               /\ Queue' = Queue
               /\ pc' = [pc EXCEPT ![l] = "exec_lock"]
          ELSE /\ Approval' = Approval
               /\ Dropped' = [Dropped EXCEPT ![l] = Append(@, result[l].Action)]
               /\ Queue' = Push(Queue, result[l].Action)
               /\ pc' = [pc EXCEPT ![l] = "stopped"]
    /\ result' = [result EXCEPT ![l] = Unset]
    /\ UNCHANGED <<lock, arg, ret, rxAlive, Assigned, Returned, Taken, Received>>

\* Mutant of LoopSend: the loop sleeps at the end of every iteration.
LoopSendThenSleep(l) ==
    /\ pc[l] = "send"
    /\ IF rxAlive[l]
          THEN /\ Approval' = [Approval EXCEPT ![l] = Append(@, result[l])]
               /\ Dropped' = Dropped
               /\ pc' = [pc EXCEPT ![l] = "sleep"]
          ELSE /\ Approval' = Approval
               /\ Dropped' = [Dropped EXCEPT ![l] = Append(@, result[l].Action)]
               /\ pc' = [pc EXCEPT ![l] = "stopped"]
    /\ result' = [result EXCEPT ![l] = Unset]
    /\ UNCHANGED <<Queue, lock, arg, ret, rxAlive, Assigned, Returned, Taken, Received>>

\* Approval.send(..).is_err(): the send fails exactly when the receiver is
\* gone, and then the loop breaks; otherwise the loop goes round.
LoopSend(l) ==
    /\ pc[l] = "send"
    /\ IF rxAlive[l]
          THEN /\ Approval' = [Approval EXCEPT ![l] = Append(@, result[l])]
               /\ Dropped' = Dropped
               /\ pc' = [pc EXCEPT ![l] = "exec_lock"]
          ELSE /\ Approval' = Approval
               /\ Dropped' = [Dropped EXCEPT ![l] = Append(@, result[l].Action)]
               /\ pc' = [pc EXCEPT ![l] = "stopped"]
    /\ result' = [result EXCEPT ![l] = Unset]
    /\ UNCHANGED <<Queue, lock, arg, ret, rxAlive, Assigned, Returned, Taken, Received>>

\* tokio::time::sleep(100 ms) elapses and the loop goes round; the None it
\* matched on is gone.
LoopWake(l) ==
    /\ pc[l] = "sleep"
    /\ pc' = [pc EXCEPT ![l] = "exec_lock"]
    /\ ret' = [ret EXCEPT ![l] = Unset]
    /\ UNCHANGED <<Queue, lock, arg, result, Approval, rxAlive, Assigned, Returned, Taken, Received, Dropped>>

\* The consumer drops the UnboundedReceiver of a loop's channel.
DropReceiver(l) ==
    /\ rxAlive[l]
    /\ rxAlive' = [rxAlive EXCEPT ![l] = FALSE]
    /\ UNCHANGED <<Queue, lock, pc, arg, ret, result, Approval, Assigned, Returned, Taken, Received, Dropped>>

\* -------------------------------------------------------------- registry
\* Operation names, Signature values (the external Signature type: a
\* declared Name and a shape) and callables offered to the registry.
Names == {"read", "write"}
Shapes == {"s1", "s2"}
Signatures == [Name : Names, Shape : Shapes]
Callables == {"f1", "f2"}

\* DashMap::new, insert, contains_key and get on a map with string keys.
EmptyMap == [k \in {} |-> None]
\* Mutant of Insert: an existing entry is kept (entry(k).or_insert(v)).
InsertIfAbsent(m, k, v) == [x \in DOMAIN m \cup {k} |-> IF x \in DOMAIN m THEN m[x] ELSE v]
Insert(m, k, v) == [x \in DOMAIN m \cup {k} |-> IF x = k THEN v ELSE m[x]]
ContainsKey(m, k) == k \in DOMAIN m
Get(m, k) == IF k \in DOMAIN m THEN Some(m[k]) ELSE None

\* Result<&mut Self, String> of Add, and the &mut Self of Sign.
Ok == [tag |-> "Ok"]
Err(msg) == [tag |-> "Err", msg |-> msg]
Self == [tag |-> "Self"]
NoCall == [op |-> "None", Name |-> "", arg |-> Unset, ret |-> Unset]
Call(op, n, a, r) == [op |-> op, Name |-> n, arg |-> a, ret |-> r]

\* Struct::New: both maps empty.
New ==
    /\ Signature' = EmptyMap
    /\ Function' = EmptyMap
    /\ signed' = {}
    /\ prev' = last
    /\ last' = Call("New", "", Unset, Self)

\* Mutant of Sign: signing a name again unbinds its callable.
SignUnbinding(sig) ==
    /\ Signature' = Insert(Signature, sig.Name, sig)
    /\ Function' = [x \in DOMAIN Function \ {sig.Name} |-> Function[x]]
    /\ signed' = signed \cup {sig.Name}
    /\ prev' = last
    /\ last' = Call("Sign", sig.Name, sig, Self)

\* Struct::Sign: insert the signature under its own Name; returns self.
Sign(sig) ==
    /\ Signature' = Insert(Signature, sig.Name, sig)
    /\ Function' = Function
    /\ signed' = signed \cup {sig.Name}
    /\ prev' = last
    /\ last' = Call("Sign", sig.Name, sig, Self)

\* Mutant of AddRefused: the contains_key check is missing.
AddRefusedNever(Name) == FALSE

\* The early return of Add: no signature is registered under Name.
AddRefused(Name) == ~ContainsKey(Signature, Name)

\* Mutant of Add: the callable is inserted before the signature is looked up.
AddInsertFirst(Name, f) ==
    /\ Function' = Insert(Function, Name, f)
    /\ last' = Call("Add", Name, f,
                    IF AddRefused(Name)
                        THEN Err(<<"No signature found for function: ", Name>>)
                        ELSE Ok)
    /\ Signature' = Signature
    /\ signed' = signed
    /\ prev' = last

\* Struct::Add: Err when no signature has the Name, else the boxed callable
\* is inserted under Name and Ok(self) is returned.
Add(Name, f) ==
    /\ IF AddRefused(Name)
          THEN /\ Function' = Function
               /\ last' = Call("Add", Name, f, Err(<<"No signature found for function: ", Name>>))
          ELSE /\ Function' = Insert(Function, Name, f)
               /\ last' = Call("Add", Name, f, Ok)
    /\ Signature' = Signature
    /\ signed' = signed
    /\ prev' = last

\* Mutant of AfterRemove: the entry is taken out (DashMap::remove).
AfterRemoveDeleting(m, Name) == [x \in DOMAIN m \ {Name} |-> m[x]]

\* What Remove leaves in the Function map: it only reads it.
AfterRemove(m, Name) == m

\* Struct::Remove: Function.get(Name); nothing is removed.
Remove(Name) ==
    /\ last' = Call("Remove", Name, Unset, Get(Function, Name))
    /\ Function' = AfterRemove(Function, Name)
    /\ Signature' = Signature
    /\ signed' = signed
    /\ prev' = last

\* -------------------------------------------------------- specifications
QueueInit ==
    /\ Queue = Begin
    /\ lock = Free
    /\ pc = [p \in Procs |-> IF p \in Callers THEN "idle" ELSE "exec_lock"]
    /\ arg = [c \in Callers |-> Unset]
    /\ ret = [p \in Procs |-> Unset]
    /\ result = [l \in Loops |-> Unset]
    /\ Approval = [l \in Loops |-> <<>>]
    /\ rxAlive = [l \in Loops |-> TRUE]
    /\ Assigned = <<>>
    /\ Returned = EmptyBag
    /\ Taken = [l \in Loops |-> <<>>]
    /\ Received = EmptyBag
    /\ Dropped = [l \in Loops |-> <<>>]

RegInit ==
    /\ Signature = EmptyMap
    /\ Function = EmptyMap
    /\ signed = {}
    /\ last = NoCall
    /\ prev = NoCall

\* The loops are started at time 0 and nothing is asleep.
TimeInit ==
    /\ now = 0
    /\ wakeAt = [l \in Loops |-> 0]
    /\ polls = [l \in Loops |-> 0]

\* Nothing is at the serialization boundary.
SerdeInit ==
    /\ value = Unset
    /\ wire = <<>>
    /\ back = Unset

Init == QueueInit /\ RegInit /\ TimeInit /\ SerdeInit

Next ==
    \/ \E c \in Callers, a \in Actions : CallAssign(c, a) /\ UNCHANGED notQueueVars
    \/ \E c \in Callers : AssignLock(c) /\ UNCHANGED notQueueVars
    \/ \E c \in Callers : AssignPush(c) /\ UNCHANGED notQueueVars
    \/ \E c \in Callers : CallExecute(c) /\ UNCHANGED notQueueVars
    \/ \E p \in Procs : ExecuteLock(p) /\ UNCHANGED notQueueVars
    \/ \E p \in Procs : ExecutePop(p) /\ UNCHANGED notQueueVars
    \/ \E l \in Loops, o \in WorkerOutcomes : LoopReceive(l, o) /\ UNCHANGED notQueueVars
    \/ \E l \in Loops : LoopSend(l) /\ UNCHANGED notQueueVars
    \/ \E l \in Loops : LoopWake(l) /\ UNCHANGED notQueueVars
    \/ \E l \in Loops : DropReceiver(l) /\ UNCHANGED notQueueVars

Spec == Init /\ [][Next]_vars

\* The registry on its own: any sequence of New, Sign, Add and Remove.
NextRegistry ==
    \/ New /\ UNCHANGED notRegVars
    \/ \E sig \in Signatures : Sign(sig) /\ UNCHANGED notRegVars
    \/ \E n \in Names, f \in Callables : Add(n, f) /\ UNCHANGED notRegVars
    \/ \E n \in Names : Remove(n) /\ UNCHANGED notRegVars

SpecRegistry == Init /\ [][NextRegistry]_vars

\* Scheduling of the tasks: a loop that can take a step of its own (pop
\* under the guard, get the Worker's answer, send, wake up) takes it, and a
\* task waiting for the mutex gets it when it is free again and again
\* (tokio's Mutex hands the lock out in FIFO order).  A task holding the
\* guard completes its push or pop.  Callers are free to make no further
\* call, and the consumer to keep its receiver.  A task is at one place at
\* a time, so strong fairness of its steps taken together says all this.
\* The steps of a running loop, and the steps of a call a caller has made.
LoopStep(l) ==
    \/ ExecuteLock(l)
    \/ ExecutePop(l)
    \/ \E o \in WorkerOutcomes : LoopReceive(l, o)
    \/ LoopSend(l)
    \/ LoopWake(l)

CallStep(c) ==
    \/ AssignLock(c)
    \/ AssignPush(c)
    \/ ExecuteLock(c)
    \/ ExecutePop(c)

LoopFairness ==
    /\ \A l \in Loops : SF_vars(LoopStep(l) /\ UNCHANGED notQueueVars)
    /\ \A c \in Callers : SF_vars(CallStep(c) /\ UNCHANGED notQueueVars)

SpecFair == Init /\ [][Next]_vars /\ LoopFairness

\* ----------------------------------------------------------- steady state
\* The same queue and loops under producers that never stop assigning.
\* The steps are those above with the ghost histories (Assigned, Returned,
\* Taken, Received, Dropped) and the channel log not kept, so that a run
\* can go on for ever in finitely many states: the consumer is taken to
\* receive each result as it is sent, and an element's ghost identity is
\* free for reuse once the element is gone.  Receivers stay alive.
LiveIds ==
    {Queue[i].id : i \in 1..Len(Queue)}
        \cup {ret[l].val.id : l \in {k \in Loops : pc[k] = "receive"}}
        \cup {result[l].Action.id : l \in {k \in Loops : pc[k] = "send"}}
FreshId == CHOOSE n \in 1..(MaxQueue + Cardinality(Loops) + 1) :
               n \notin LiveIds /\ \A m \in 1..(n - 1) : m \in LiveIds

\* What the producers assign: the queue never looks into an Action, so one
\* value stands for all, told apart by their ghost identities.
SteadyActions == {Read("/tmp/x")}

\* Producers call Assign only while the queue has room for the element.
QueueRoom ==
    Len(Queue) + Cardinality({c \in Callers : pc[c] \in {"assign_lock", "assign_push"}}) < MaxQueue

SteadyCallAssign(c, a) ==
    /\ QueueRoom
    /\ pc[c] = "idle"
    /\ pc' = [pc EXCEPT ![c] = "assign_lock"]
    /\ arg' = [arg EXCEPT ![c] = a]
    /\ UNCHANGED <<Queue, lock, ret, result, Approval, rxAlive, Assigned, Returned,
                   Taken, Received, Dropped>>

\* .push(Action) under the guard; the guard is dropped and Assign returns.
SteadyAssignPush(c) ==
    /\ pc[c] = "assign_push"
    /\ lock = c
    /\ Queue' = Push(Queue, [id |-> FreshId, act |-> arg[c]])
    /\ lock' = Free
    /\ pc' = [pc EXCEPT ![c] = "idle"]
    /\ arg' = [arg EXCEPT ![c] = Unset]
    /\ UNCHANGED <<ret, result, Approval, rxAlive, Assigned, Returned, Taken, Received, Dropped>>

\* .pop() under the guard; the guard is dropped and Execute returns.
SteadyExecutePop(l) ==
    /\ pc[l] = "exec_pop"
    /\ lock = l
    /\ LET r == Pop(Queue)
       IN /\ Queue' = r.rest
          /\ ret' = [ret EXCEPT ![l] = r.ret]
          /\ pc' = [pc EXCEPT ![l] = AfterExecute(l, r.ret)]
    /\ lock' = Free
    /\ UNCHANGED <<arg, result, Approval, rxAlive, Assigned, Returned, Taken, Received, Dropped>>

\* Site.Receive(Action).await returns.
SteadyReceive(l, o) ==
    /\ pc[l] = "receive"
    /\ result' = [result EXCEPT ![l] = ActionResult(ret[l].val, o)]
    /\ ret' = [ret EXCEPT ![l] = Unset]
    /\ pc' = [pc EXCEPT ![l] = "send"]
    /\ UNCHANGED <<Queue, lock, arg, Approval, rxAlive, Assigned, Returned, Taken, Received, Dropped>>

\* Approval.send(..) with the receiver alive: Ok, and the loop goes round.
SteadySend(l) ==
    /\ pc[l] = "send"
    /\ rxAlive[l]
    /\ pc' = [pc EXCEPT ![l] = "exec_lock"]
    /\ result' = [result EXCEPT ![l] = Unset]
    /\ UNCHANGED <<Queue, lock, arg, ret, Approval, rxAlive, Assigned, Returned, Taken, Received, Dropped>>

SteadyLoopStep(l) ==
    \/ ExecuteLock(l)
    \/ SteadyExecutePop(l)
    \/ \E o \in WorkerOutcomes : SteadyReceive(l, o)
    \/ SteadySend(l)
    \/ LoopWake(l)

SteadyCallStep(c) ==
    \/ AssignLock(c)
    \/ SteadyAssignPush(c)

NextSteady ==
    \/ \E c \in Callers, a \in SteadyActions : SteadyCallAssign(c, a) /\ UNCHANGED notQueueVars
    \/ \E c \in Callers : SteadyCallStep(c) /\ UNCHANGED notQueueVars
    \/ \E l \in Loops : SteadyLoopStep(l) /\ UNCHANGED notQueueVars

\* Fair scheduling of every task, as in SpecFair; producers are free to go
\* on assigning or to stop.
SpecSteady ==
    /\ Init
    /\ [][NextSteady]_vars
    /\ \A l \in Loops : SF_vars(SteadyLoopStep(l) /\ UNCHANGED notQueueVars)
    /\ \A c \in Callers : SF_vars(SteadyCallStep(c) /\ UNCHANGED notQueueVars)

\* ------------------------------------------------------------------ time
\* The loops on a queue that stays empty, with a clock.  Taking the lock
\* and popping take no time; a sleeping loop is resumed when its sleep is
\* over, at most MaxLate ms late.
\* Duration::from_millis(100), the backoff of Fn.
BackoffMs == 100

\* Mutant of SleepElapsed: the sleep future is not awaited.
SleepSkipped(l) == TRUE

\* tokio::time::sleep(..).await completes no earlier than its deadline.
SleepElapsed(l) == now >= wakeAt[l]

TimedLock(l) == ExecuteLock(l) /\ UNCHANGED timeVars

\* Work.Execute returns: one more poll; on None the sleep is started.
TimedPop(l) ==
    /\ ExecutePop(l)
    /\ polls' = [polls EXCEPT ![l] = @ + 1]
    /\ wakeAt' = [wakeAt EXCEPT ![l] = IF Pop(Queue).ret = None THEN now + BackoffMs ELSE @]
    /\ now' = now

TimedWake(l) == SleepElapsed(l) /\ LoopWake(l) /\ UNCHANGED timeVars

\* One ms passes: no loop is about to lock or pop, none is overdue.
Tick ==
    /\ now < MaxTime
    /\ \A l \in Loops : pc[l] \notin {"exec_lock", "exec_pop"}
    /\ \A l \in Loops : pc[l] = "sleep" => now < wakeAt[l] + MaxLate
    /\ now' = now + 1
    /\ UNCHANGED <<wakeAt, polls>>

NextIdle ==
    \/ \E l \in Loops : TimedLock(l) /\ UNCHANGED <<regVars, serdeVars>>
    \/ \E l \in Loops : TimedPop(l) /\ UNCHANGED <<regVars, serdeVars>>
    \/ \E l \in Loops : TimedWake(l) /\ UNCHANGED <<regVars, serdeVars>>
    \/ Tick /\ UNCHANGED <<queueVars, regVars, serdeVars>>

SpecIdle == Init /\ [][NextIdle]_vars

\* ----------------------------------------------------------------- serde
\* #[derive(Serialize, Deserialize)] on Action and ActionResult, at the level
\* of serde's data model: the derived Serialize emits a stream of tokens
\* (an externally tagged struct variant for an Action, a struct for an
\* ActionResult, a newtype variant for a Result), the derived Deserialize
\* reads one back, picking the variant and the fields by name.
\* Strings at the boundary; some collide with field and variant names.
SerdeStrings == {"", "/tmp/x", "Path", "Read"}
SerdeActions ==
    {Read(p) : p \in SerdeStrings} \cup
    {Write(p, c) : <<p, c>> \in SerdeStrings \X SerdeStrings}
SerdeResults == {[tag |-> t, val |-> s] : <<t, s>> \in {"Ok", "Err"} \X SerdeStrings}
SerdeValues ==
    SerdeActions \cup {ActionResult(a, r) : <<a, r>> \in SerdeActions \X SerdeResults}

\* The value is an Action (it has a variant tag), not an ActionResult.
IsAction(v) == "tag" \in DOMAIN v

Tok(t, v) == [t |-> t, v |-> v]
SerdeError == [tag |-> "Error"]
Parsed(v, rest) == [val |-> v, rest |-> rest]

\* Mutant of SerializeAction: an empty Content is left out.
SerializeActionSkippingEmpty(a) ==
    <<Tok("StructVariant", a.tag), Tok("Field", "Path"), Tok("Str", a.Path)>>
    \o (IF a.tag = "Write" /\ a.Content # ""
        THEN <<Tok("Field", "Content"), Tok("Str", a.Content)>>
        ELSE <<>>)
    \o <<Tok("StructVariantEnd", "")>>

\* Serialize for Action: the variant's name, then its fields in order.
SerializeAction(a) ==
    <<Tok("StructVariant", a.tag), Tok("Field", "Path"), Tok("Str", a.Path)>>
    \o (IF a.tag = "Write"
        THEN <<Tok("Field", "Content"), Tok("Str", a.Content)>>
        ELSE <<>>)
    \o <<Tok("StructVariantEnd", "")>>

\* Serialize for Result<String, String>.
SerializeResult(r) == <<Tok("NewtypeVariant", r.tag), Tok("Str", r.val)>>

\* Serialize for ActionResult: its two fields in order.
SerializeActionResult(x) ==
    <<Tok("Struct", "ActionResult"), Tok("Field", "Action")>>
    \o SerializeAction(x.Action)
    \o <<Tok("Field", "Result")>>
    \o SerializeResult(x.Result)
    \o <<Tok("StructEnd", "")>>

Serialize(v) == IF IsAction(v) THEN SerializeAction(v) ELSE SerializeActionResult(v)

\* The string fields of a struct variant up to its end, as name/value
\* pairs; a field given twice is an error.
RECURSIVE ReadFields(_, _)
ReadFields(t, acc) ==
    IF t = <<>> THEN SerdeError
    ELSE IF Head(t).t = "StructVariantEnd" THEN Parsed(acc, Tail(t))
    ELSE IF /\ Head(t).t = "Field"
            /\ Len(t) >= 2
            /\ t[2].t = "Str"
            /\ \A f \in acc : f[1] # Head(t).v
         THEN ReadFields(SubSeq(t, 3, Len(t)), acc \cup {<<Head(t).v, t[2].v>>})
         ELSE SerdeError

HasField(fields, name) == \E f \in fields : f[1] = name
FieldOf(fields, name) == (CHOOSE f \in fields : f[1] = name)[2]

\* Deserialize for Action: the variant by its name, each of its fields by
\* its name; an unknown variant or a missing field is an error.
DeserializeAction(t) ==
    IF t = <<>> \/ Head(t).t # "StructVariant" \/ Head(t).v \notin {"Read", "Write"}
    THEN SerdeError
    ELSE LET f == ReadFields(Tail(t), {})
         IN  IF f = SerdeError THEN SerdeError
             ELSE IF Head(t).v = "Read"
                  THEN IF HasField(f.val, "Path")
                       THEN Parsed(Read(FieldOf(f.val, "Path")), f.rest)
                       ELSE SerdeError
                  ELSE IF HasField(f.val, "Path") /\ HasField(f.val, "Content")
                       THEN Parsed(Write(FieldOf(f.val, "Path"), FieldOf(f.val, "Content")), f.rest)
                       ELSE SerdeError

\* Deserialize for Result<String, String>.
DeserializeResult(t) ==
    IF /\ Len(t) >= 2
       /\ t[1].t = "NewtypeVariant"
       /\ t[1].v \in {"Ok", "Err"}
       /\ t[2].t = "Str"
    THEN Parsed([tag |-> t[1].v, val |-> t[2].v], SubSeq(t, 3, Len(t)))
    ELSE SerdeError

\* Deserialize for ActionResult.
DeserializeActionResult(t) ==
    IF Len(t) < 2 \/ t[1] # Tok("Struct", "ActionResult") \/ t[2] # Tok("Field", "Action")
    THEN SerdeError
    ELSE LET a == DeserializeAction(SubSeq(t, 3, Len(t)))
         IN  IF a = SerdeError \/ a.rest = <<>> \/ Head(a.rest) # Tok("Field", "Result")
             THEN SerdeError
             ELSE LET r == DeserializeResult(Tail(a.rest))
                  IN  IF r = SerdeError \/ r.rest # <<Tok("StructEnd", "")>>
                      THEN SerdeError
                      ELSE Parsed(ActionResult(a.val, r.val), <<>>)

\* Deserialize at the type of the value that was serialized; input left
\* over is an error.
Deserialize(asAction, t) ==
    LET d == IF asAction THEN DeserializeAction(t) ELSE DeserializeActionResult(t)
    IN  IF d = SerdeError \/ d.rest # <<>> THEN SerdeError ELSE d.val

\* A value arrives at the boundary.
TakeValue ==
    /\ value = Unset \/ back # Unset
    /\ value' \in SerdeValues
    /\ wire' = <<>>
    /\ back' = Unset

SerializeStep ==
    /\ value # Unset
    /\ wire = <<>>
    /\ wire' = Serialize(value)
    /\ UNCHANGED <<value, back>>

DeserializeStep ==
    /\ wire # <<>>
    /\ back = Unset
    /\ back' = Deserialize(IsAction(value), wire)
    /\ UNCHANGED <<value, wire>>

NextSerde ==
    \/ TakeValue /\ UNCHANGED <<queueVars, regVars, timeVars>>
    \/ SerializeStep /\ UNCHANGED <<queueVars, regVars, timeVars>>
    \/ DeserializeStep /\ UNCHANGED <<queueVars, regVars, timeVars>>

SpecSerde == Init /\ [][NextSerde]_vars

\* ------------------------------------------------------------ properties
Item(i) == [id |-> i, act |-> Assigned[i]]
\* Pushes whose element no Execute has returned yet.
Unreturned == {i \in 1..Len(Assigned) : ~BagIn(Item(i), Returned)}
Newest(S) == CHOOSE i \in S : \A j \in S : j <= i
\* Task p completes the pop of an Execute in this step.
Pops(p) == pc[p] = "exec_pop" /\ pc'[p] # "exec_pop"
CountAssigned(a) == Cardinality({i \in 1..Len(Assigned) : Assigned[i] = a})
CountReturned(a) ==
    LET S == {x \in BagToSet(Returned) : x.act = a}
        RECURSIVE Sum(_)
        Sum(T) == IF T = {} THEN 0
                  ELSE LET x == CHOOSE y \in T : TRUE
                       IN CopiesIn(x, Returned) + Sum(T \ {x})
    IN Sum(S)

\* C1: strict LIFO.  Every Execute returns the most recently assigned
\* action among those not yet returned (and None when there is none), so n
\* Assigns followed by n Executes come back in reverse order.
C1_StrictLIFO ==
    [][\A p \in Procs : Pops(p) =>
          ret'[p] = IF Unreturned = {} THEN None ELSE Some(Item(Newest(Unreturned)))]_vars

\* Two different actions were assigned, and the older one has come back to
\* a caller when the newer one had already been returned.
C1_Witness ==
    /\ Len(Assigned) = 2
    /\ Assigned[1] # Assigned[2]
    /\ BagIn(Item(2), Returned)
    /\ \E c \in Callers : ret[c] = Some(Item(1)) /\ pc[c] = "idle"

\* C2: no lost and no invented actions.  Whenever the queue is empty, each
\* action has been returned by Execute exactly as often as it has been
\* enqueued by Assign.
C2_NoLostNoInvented ==
    Queue = <<>> => \A a \in Actions : CountReturned(a) = CountAssigned(a)

\* The queue has been drained after two different actions were enqueued.
C2_Witness ==
    /\ Queue = <<>>
    /\ Len(Assigned) = 2
    /\ Assigned[1] # Assigned[2]
    /\ BagCardinality(Returned) = 2

\* C3: no double-delivery.  No queue element is returned by two Execute
\* calls.
C3_NoDoubleDelivery ==
    \A x \in BagToSet(Returned) : CopiesIn(x, Returned) = 1

\* Two dispatch loops hold an element each, handed out by two Execute
\* calls on the shared queue.
C3_Witness ==
    \E l1, l2 \in Loops :
        /\ l1 # l2
        /\ pc[l1] = "receive" /\ pc[l2] = "receive"
        /\ ret[l1] # ret[l2]

\* C4: Execute on an empty queue, once it holds the lock, can complete at
\* once, returns None and leaves the queue empty.
C4_ExecuteEmpty ==
    [][\A p \in Procs : (pc[p] = "exec_pop" /\ Queue = <<>>) =>
          /\ ENABLED ExecutePop(p)
          /\ Pops(p) => (ret'[p] = None /\ Queue' = <<>>)]_vars

\* An Execute has returned None to a direct caller although nothing was
\* ever assigned and no Assign is under way.
C4_Witness ==
    \E c \in Callers :
        /\ pc[c] = "idle"
        /\ ret[c] = None
        /\ Assigned = <<>>
        /\ \A d \in Callers : pc[d] \notin {"assign_lock", "assign_push"}

\* C5: Add on a name with no signature returns an error and leaves both
\* maps as they were.
C5_AddUnsigned ==
    [][(last'.op = "Add" /\ ~ContainsKey(Signature, last'.Name)) =>
          /\ last'.ret = Err(<<"No signature found for function: ", last'.Name>>)
          /\ Signature' = Signature
          /\ Function' = Function]_vars

\* An Add was refused while the registry held entries for another name.
C5_Witness ==
    /\ last.op = "Add"
    /\ last.ret.tag = "Err"
    /\ DOMAIN Function # {}

\* C6: every name with a bound callable has a signature.
C6_SignBeforeBind == DOMAIN Function \subseteq DOMAIN Signature

\* A callable is bound.
C6_Witness == DOMAIN Function # {} /\ last.op = "Add"

\* C7: Add on a name that Sign has been called with succeeds, and a Remove
\* of that name made right after it returns the callable of that Add.
C7_AddThenRemove ==
    /\ (last.op = "Add" /\ last.Name \in signed) => last.ret = Ok
    /\ (last.op = "Remove" /\ prev.op = "Add" /\ prev.Name = last.Name
            /\ prev.Name \in signed) => last.ret = Some(prev.arg)

\* A Remove right after a successful Add that replaced an earlier binding
\* has returned the new callable.
C7_Witness ==
    /\ last.op = "Remove" /\ prev.op = "Add" /\ prev.Name = last.Name
    /\ prev.ret = Ok
    /\ last.ret = Some(prev.arg)

\* C8: Remove returns the bound callable or nothing, changes neither map,
\* and a second Remove of the same name returns what the first did.
C8_RemoveIsLookup ==
    /\ [](last.op = "Remove" /\ prev.op = "Remove" /\ prev.Name = last.Name
            => last.ret = prev.ret)
    /\ [][last'.op = "Remove" =>
            /\ Signature' = Signature
            /\ Function' = Function
            /\ last'.ret = Get(Function, last'.Name)]_vars

\* Two Removes of one bound name in a row, both returning the callable.
C8_Witness ==
    /\ last.op = "Remove" /\ prev.op = "Remove" /\ prev.Name = last.Name
    /\ last.ret # None
    /\ last.ret = prev.ret

\* C9: a dispatch loop stops only in a step in which it sends while the
\* receiver is gone; neither an Err outcome nor an empty queue stops it.
C9_SoleTermination ==
    [][\A l \in Loops : (pc[l] # "stopped" /\ pc'[l] = "stopped") =>
          (pc[l] = "send" /\ ~rxAlive[l])]_vars

\* A loop has delivered an Err result, gone on, and stopped later.
C9_Witness ==
    \E l \in Loops :
        /\ pc[l] = "stopped"
        /\ \E i \in 1..Len(Approval[l]) : Approval[l][i].Result.tag = "Err"

\* C10 as stated: once the receiver is dropped the loop eventually stops,
\* whatever the queue holds.
C10_DropStopsLoop ==
    \A l \in Loops : (~rxAlive[l]) ~> (pc[l] = "stopped")

\* C10 amended: once the receiver is dropped, a loop that holds a dequeued
\* action eventually stops (at the send of that action's result).
C10_DropStopsLoopWithAction ==
    \A l \in Loops : (~rxAlive[l] /\ pc[l] \in {"receive", "send"}) ~> (pc[l] = "stopped")

\* A loop has stopped after its receiver was dropped, with work left queued.
C10_Witness ==
    \E l \in Loops : ~rxAlive[l] /\ pc[l] = "stopped" /\ Len(Queue) > 0

\* The elements of the results in a channel log, and of any sequence.
ActsOf(log) == [i \in 1..Len(log) |-> log[i].Action]
Elems(q) == {q[i] : i \in 1..Len(q)}
\* The element a loop has dequeued and not yet tried to send the result of.
InHand(l) ==
    IF pc[l] = "receive" THEN <<ret[l].val>>
    ELSE IF pc[l] = "send" THEN <<result[l].Action>>
    ELSE <<>>
\* The elements a loop has dequeued and already passed to Site.Receive.
HandedToWorker(l) ==
    IF pc[l] = "receive" THEN Elems(SubSeq(Taken[l], 1, Len(Taken[l]) - 1)) ELSE Elems(Taken[l])

\* C11: exactly-once reporting, no retry.  While its receiver is alive, the
\* elements a loop has dequeued are, in order, those of the results it has
\* sent plus the one it holds; each dequeued element is passed to Receive
\* once (none twice, none skipped), and none is back in the queue.
C11_ExactlyOnce ==
    /\ \A l \in Loops : rxAlive[l] => Taken[l] = ActsOf(Approval[l]) \o InHand(l)
    /\ \A l \in Loops : Cardinality(Elems(ActsOf(Approval[l]))) = Len(Approval[l])
    /\ \A x \in BagToSet(Received) : CopiesIn(x, Received) = 1
    /\ BagToSet(Received) = UNION {HandedToWorker(l) : l \in Loops}
    /\ \A l \in Loops : Elems(Taken[l]) \cap Elems(Queue) = {}

\* A loop whose receiver is alive has reported an Err result and an Ok
\* result, one for each of the two actions it dequeued.
C11_Witness ==
    \E l \in Loops :
        /\ rxAlive[l]
        /\ Len(Approval[l]) = 2
        /\ Approval[l][1].Result.tag = "Err"
        /\ Approval[l][2].Result.tag = "Ok"
        /\ pc[l] = "sleep"

\* The element with ghost identity i is waiting in the queue.
InQueue(i) == \E k \in 1..Len(Queue) : Queue[k].id = i
\* An Assign completes in this step.
Pushes == Len(Queue') > Len(Queue)
\* No element is at two places: twice in the queue, in the queue and in a
\* loop's hands, or in the hands of two loops.
NoElementTwice ==
    Len(Queue) + Cardinality({l \in Loops : pc[l] \in {"receive", "send"}}) = Cardinality(LiveIds)

\* C12 as stated: with the loops fairly scheduled and the receivers alive,
\* every assigned action is eventually dequeued, also while producers keep
\* assigning newer actions.
C12_EventuallyDequeued ==
    \A i \in 1..MaxQueue : InQueue(i) ~> ~InQueue(i)

\* C12 amended: every assigned action is eventually dequeued provided the
\* producers at some point stop assigning newer actions, and no element is
\* handed out twice.
C12_DequeuedOnceProducersStop ==
    /\ []NoElementTwice
    /\ \A i \in 1..MaxQueue : (<>[][~Pushes]_vars) => (InQueue(i) ~> ~InQueue(i))

\* A loop has dequeued the newer of two actions while the older one is
\* still waiting in the queue.
C12_Witness ==
    \E l \in Loops :
        /\ pc[l] = "receive"
        /\ ret[l].val.id = 2
        /\ InQueue(1)

\* Map m2 is map m1 with key k set to v and nothing else changed.
OnlySet(m1, m2, k, v) ==
    /\ DOMAIN m2 = DOMAIN m1 \cup {k}
    /\ m2[k] = v
    /\ \A x \in DOMAIN m1 \ {k} : m2[x] = m1[x]

\* C13: overwrite semantics.  Sign returns self, puts its signature under
\* the declared name in place of any earlier one and leaves the Function
\* map alone; Add on a signed name puts its callable in place of any
\* earlier one and leaves other names' bindings and the Signature map
\* alone, so Remove returns the callable of the Add made last.
C13_Overwrite ==
    /\ [][last'.op = "Sign" =>
            /\ last'.ret = Self
            /\ OnlySet(Signature, Signature', last'.Name, last'.arg)
            /\ Function' = Function]_vars
    /\ [][(last'.op = "Add" /\ ContainsKey(Signature, last'.Name)) =>
            /\ last'.ret = Ok
            /\ OnlySet(Function, Function', last'.Name, last'.arg)
            /\ Get(Function', last'.Name) = Some(last'.arg)
            /\ Signature' = Signature]_vars

\* A name with a bound callable has been signed again with another shape,
\* and the callable is still bound.
C13_Witness ==
    /\ last.op = "Sign" /\ prev.op = "Sign" /\ prev.Name = last.Name
    /\ prev.arg # last.arg
    /\ Signature[last.Name] = last.arg
    /\ ContainsKey(Function, last.Name)

\* C14: entries persist.  No Sign, Add or Remove call takes a key out of
\* the Signature map or out of the Function map.
C14_EntriesPersist ==
    [][last'.op \in {"Sign", "Add", "Remove"} =>
          /\ DOMAIN Signature \subseteq DOMAIN Signature'
          /\ DOMAIN Function \subseteq DOMAIN Function']_vars

\* Both names are signed and bound, and a Remove has just been made.
C14_Witness ==
    /\ last.op = "Remove"
    /\ DOMAIN Signature = Names
    /\ DOMAIN Function = Names

C16_RoundTrip == back # Unset => back = value

\* A Write whose Content is empty and whose Path reads like a field name,
\* paired with an Err, has gone through and come back.
C16_Witness ==
    /\ back = ActionResult(Write("Path", ""), [tag |-> "Err", val |-> "Read"])
    /\ wire # <<>>

\* Tasks between Queue.lock().await and the end of their push or pop.
InCritical == {p \in Procs : pc[p] \in {"assign_push", "exec_pop"}}

\* C17: atomic under the single lock.  At most one Assign or Execute is in
\* its critical section and it is the lock holder; the sequence changes
\* only in the holder's step, which is the whole push or pop applied to the
\* sequence as it stood when the lock was taken and which gives the lock
\* up; so the calls take effect one after another in the order of their
\* lock acquisitions, and the queue is what that sequential order leaves:
\* the assigned elements not yet returned, in the order of their pushes.
C17_AtomicUnderLock ==
    /\ [](/\ Cardinality(InCritical) <= 1
          /\ \A p \in InCritical : lock = p
          /\ lock # Free => lock \in InCritical
          /\ Cardinality(Unreturned) = Len(Queue)
          /\ \A k \in 1..Len(Queue) :
                /\ Queue[k].id \in Unreturned
                /\ Queue[k] = Item(Queue[k].id)
                /\ k > 1 => Queue[k - 1].id < Queue[k].id)
    /\ [][/\ Queue' # Queue => lock # Free /\ lock' = Free
          /\ (lock # Free /\ lock' # lock) => lock' = Free
          /\ \A p \in InCritical : pc'[p] # pc[p] =>
                /\ lock' = Free
                /\ pc[p] = "assign_push" =>
                      /\ Queue' = Append(Queue, [id |-> Len(Assigned) + 1, act |-> arg[p]])
                      /\ Assigned' = Append(Assigned, arg[p])
                /\ pc[p] = "exec_pop" =>
                      /\ ret'[p] = (IF Queue = <<>> THEN None ELSE Some(Queue[Len(Queue)]))
                      /\ Queue' = SubSeq(Queue, 1, Len(Queue) - 1)]_vars

\* A caller holds the lock for its push while a loop and the other caller
\* wait for it with an Execute each, the queue not empty.
C17_Witness ==
    /\ \E c \in Callers : pc[c] = "assign_push" /\ lock = c
    /\ \E l \in Loops : pc[l] = "exec_lock"
    /\ \E c \in Callers : pc[c] = "exec_lock"
    /\ Queue # <<>>

\* C18: no lock across the awaits of the loop.  A loop that awaits
\* Worker.Receive, sends, or sleeps does not hold the queue lock: the
\* holder, if there is one, is a task at its own push or pop, and with the
\* lock free a task waiting in Assign or Execute can take it and finish.
C18_LoopReleasesLock ==
    /\ \A l \in Loops : pc[l] \in {"receive", "send", "sleep", "stopped"} => lock # l
    /\ lock # Free => (ENABLED AssignPush(lock)) \/ (ENABLED ExecutePop(lock))
    /\ \A p \in Procs :
          lock = Free =>
            /\ pc[p] = "assign_lock" => ENABLED AssignLock(p)
            /\ pc[p] = "exec_lock" => ENABLED ExecuteLock(p)

\* While one loop awaits Worker.Receive with the first element, a second
\* Assign has run to its end (its element is in the queue), a caller holds
\* the lock for an Execute, and the other loop sleeps.
C18_Witness ==
    \E l1, l2 \in Loops :
        /\ Len(Assigned) = 2
        /\ pc[l1] = "receive"
        /\ ret[l1] = Some(Item(1))
        /\ pc[l2] = "sleep"
        /\ Queue = <<Item(2)>>
        /\ \E c \in Callers : pc[c] = "exec_pop" /\ lock = c

RECURSIVE SumOver(_, _)
SumOver(S, f) ==
    IF S = {} THEN 0
    ELSE LET x == CHOOSE y \in S : TRUE IN f[x] + SumOver(S \ {x}, f)
\* What one loop accounts for: in flight, delivered (its send succeeded),
\* dropped (its send failed).
LoopShare(l) == Len(InHand(l)) + Len(Approval[l]) + Len(Dropped[l])
\* Elements that Execute returned to direct callers, not to a loop.
DirectReturns == BagCardinality(Returned) - SumOver(Loops, [l \in Loops |-> Len(Taken[l])])

\* C19: the action whose forwarding fails is lost.  A loop has stopped
\* exactly when it has dropped one action, never more; that action is the
\* one it dequeued last, it was passed to Worker.Receive, and it is neither
\* in the queue nor among the results delivered.  A stopped loop does
\* nothing more, so what is in the queue is taken out by others only.  At
\* every moment assigned = in queue + in flight + delivered + dropped,
\* summed over the loops and the direct callers of Execute, and for one
\* loop alone when nobody else has dequeued.
C19_FailedForwardLost ==
    /\ [](\A l \in Loops :
            /\ Len(Dropped[l]) <= 1
            /\ pc[l] = "stopped" <=> Len(Dropped[l]) = 1
            /\ pc[l] = "stopped" =>
                  /\ ~rxAlive[l]
                  /\ Dropped[l][1] = Taken[l][Len(Taken[l])]
                  /\ BagIn(Dropped[l][1], Received)
                  /\ Dropped[l][1] \notin Elems(Queue)
                  /\ \A k \in Loops : Dropped[l][1] \notin Elems(ActsOf(Approval[k])) \cup Elems(InHand(k))
            /\ (DirectReturns = 0 /\ \A k \in Loops \ {l} : Taken[k] = <<>>) =>
                  Len(Assigned) = Len(Queue) + LoopShare(l))
    /\ [](Len(Assigned) =
            Len(Queue) + SumOver(Loops, [l \in Loops |-> LoopShare(l)]) + DirectReturns)
    /\ [][\A l \in Loops : pc[l] = "stopped" =>
            /\ pc'[l] = "stopped"
            /\ Taken'[l] = Taken[l] /\ Approval'[l] = Approval[l] /\ Dropped'[l] = Dropped[l]
            /\ Queue' # Queue => \E p \in Procs \ {l} : pc[p] \in {"assign_push", "exec_pop"} /\ pc'[p] # pc[p]]_vars

\* The only loop that ever dequeued has stopped on its second action after
\* delivering the first, or has stopped on its first with the second still
\* in the queue: here the latter.
C19_Witness ==
    \E l \in Loops :
        /\ pc[l] = "stopped"
        /\ Len(Dropped[l]) = 1
        /\ Len(Queue) = 1
        /\ Len(Assigned) = 2
        /\ DirectReturns = 0
        /\ \A k \in Loops \ {l} : Taken[k] = <<>> /\ pc[k] = "sleep"

\* C20: one action in flight per loop, results in dequeue order.  What a
\* loop has dequeued is, in order, what it has sent, then what it failed to
\* send, then the one action it still holds; it enters Execute only from a
\* send attempt or from a sleep, dequeues only there, goes from a send
\* straight back to Execute or stops, and starts to sleep only when its
\* Execute has returned None.
C20_OneInFlightInOrder ==
    /\ [](\A l \in Loops :
            /\ Taken[l] = ActsOf(Approval[l]) \o Dropped[l] \o InHand(l)
            /\ pc[l] \in {"exec_lock", "exec_pop", "sleep", "stopped"} => InHand(l) = <<>>)
    /\ [][\A l \in Loops :
            /\ (pc'[l] = "exec_lock" /\ pc[l] # "exec_lock") => pc[l] \in {"send", "sleep"}
            /\ Taken'[l] # Taken[l] =>
                  /\ pc[l] = "exec_pop" /\ pc'[l] = "receive"
                  /\ Taken'[l] = Append(Taken[l], Queue[Len(Queue)])
            /\ (pc[l] = "send" /\ pc'[l] # "send") =>
                  /\ pc'[l] \in {"exec_lock", "stopped"}
                  /\ pc'[l] = "exec_lock" <=> Approval'[l] = Append(Approval[l], result[l])
            /\ (pc'[l] = "sleep" /\ pc[l] # "sleep") =>
                  /\ pc[l] = "exec_pop"
                  /\ Queue = <<>> /\ ret'[l] = None
                  /\ Taken'[l] = Taken[l]]_vars

\* A loop has dequeued the second element, then the first, and the
\* consumer holds its two results in that order; the loop is about to call
\* Execute again.
C20_Witness ==
    \E l \in Loops :
        /\ Len(Approval[l]) = 2
        /\ Taken[l] = ActsOf(Approval[l])
        /\ Taken[l][1].id = 2 /\ Taken[l][2].id = 1
        /\ pc[l] = "exec_lock"

====
